---- MODULE Spec2Model ----
(***************************************************************************)
(* LocationHelper (src/utils/location_helper.py): ZIP code -> Coordinates  *)
(* via Zippopotam.us, Coordinates -> PointsMetadata via api.weather.gov.   *)
(*                                                                         *)
(* Python values are tagged records:                                       *)
(*   None   [t |-> "None"]                                                 *)
(*   bool   [t |-> "bool",  b |-> BOOLEAN]                                 *)
(*   int    [t |-> "int",   i |-> Int, e |-> Nat]      i * 10^e            *)
(*   float  [t |-> "float", neg |-> BOOLEAN, m |-> Nat, scale |-> Nat]     *)
(*                                                      (+/-) m / 10^scale *)
(*   str    [t |-> "str",   s |-> sequence of characters]; a text that no  *)
(*          operation looks into is written as one piece                   *)
(*   list   [t |-> "list",  l |-> sequence of values]                      *)
(*   dict   [t |-> "dict",  d |-> function from key strings to values]     *)
(* The result of a call is Return(v) or Raise(exc, msg, cause): the        *)
(* exception class, the pieces of its message, the class of the exception  *)
(* it was raised `from` ("" when none).                                    *)
(***************************************************************************)
EXTENDS Integers, Sequences, FiniteSets, TLC

VARIABLES
    user_agent,     \* the argument __init__ was called with
    environ,        \* os.environ's WINDOW_WEATHER_USER_AGENT (None when unset)
    session,        \* self.session: [headers |-> dict of header values]
    geocoder,       \* what api.zippopotam.us answers to a GET
    nws,            \* what api.weather.gov answers to a GET
    calls           \* per public method: the last finished call, or NoCall

vars == <<user_agent, environ, session, geocoder, nws, calls>>

----------------------------------------------------------------------------
(* Python values *)

None_ == [t |-> "None"]

PyBool(b) == [t |-> "bool", b |-> b]

PyInt(i) == [t |-> "int", i |-> i, e |-> 0]

\* i * 10^e: an integer literal too long to write out digit by digit
PyIntE(i, e) == [t |-> "int", i |-> i, e |-> e]

PyFloat(neg, m, scale) == [t |-> "float", neg |-> neg, m |-> m, scale |-> scale]

PyStr(s) == [t |-> "str", s |-> s]

PyList(l) == [t |-> "list", l |-> l]

PyDict(d) == [t |-> "dict", d |-> d]

EmptyDict == PyDict([k \in {} |-> None_])

Return(v) == [k |-> "return", v |-> v]

Raise(exc, msg, cause) == [k |-> "raise", exc |-> exc, msg |-> msg, cause |-> cause]

Returned(r) == r.k = "return"

Raised(r) == r.k = "raise"

\* Python truth value, as `or`, `not` and all() take it
Truthy(v) ==
    CASE v.t = "None"  -> FALSE
      [] v.t = "bool"  -> v.b
      [] v.t = "int"   -> v.i # 0
      [] v.t = "float" -> v.m # 0
      [] v.t = "str"   -> Len(v.s) > 0
      [] v.t = "list"  -> Len(v.l) > 0
      [] v.t = "dict"  -> DOMAIN v.d # {}

\* a or b
Or(a, b) == IF Truthy(a) THEN a ELSE b

\* obj.get(key): a dict method; any other JSON value has no attribute `get`
DictGet(obj, key) ==
    IF obj.t = "dict"
    THEN Return(IF key \in DOMAIN obj.d THEN obj.d[key] ELSE None_)
    ELSE Raise("AttributeError", <<"get">>, "")

\* obj[-1] in the place of obj[0]
Index0_Last(obj) ==
    CASE obj.t = "list" ->
            IF Len(obj.l) > 0 THEN Return(obj.l[Len(obj.l)])
            ELSE Raise("IndexError", <<"list index out of range">>, "")
      [] obj.t = "str"  ->
            IF Len(obj.s) > 0 THEN Return(PyStr(<<obj.s[Len(obj.s)]>>))
            ELSE Raise("IndexError", <<"string index out of range">>, "")
      [] obj.t = "dict" -> Raise("KeyError", <<"-1">>, "")
      [] OTHER          -> Raise("TypeError", <<"not subscriptable">>, "")

\* obj[0]
Index0(obj) ==
    CASE obj.t = "list" ->
            IF Len(obj.l) > 0 THEN Return(obj.l[1])
            ELSE Raise("IndexError", <<"list index out of range">>, "")
      [] obj.t = "str"  ->
            IF Len(obj.s) > 0 THEN Return(PyStr(<<obj.s[1]>>))
            ELSE Raise("IndexError", <<"string index out of range">>, "")
      [] obj.t = "dict" -> Raise("KeyError", <<"0">>, "")
      [] OTHER          -> Raise("TypeError", <<"not subscriptable">>, "")

\* obj[key] for a string key
Subscript(obj, key) ==
    CASE obj.t = "dict" ->
            IF key \in DOMAIN obj.d THEN Return(obj.d[key])
            ELSE Raise("KeyError", <<key>>, "")
      [] obj.t \in {"list", "str"} -> Raise("TypeError", <<"indices must be integers">>, "")
      [] OTHER -> Raise("TypeError", <<"not subscriptable">>, "")

DigitChars == <<"0", "1", "2", "3", "4", "5", "6", "7", "8", "9">>

IsDigit(c) == \E d \in 1..10 : DigitChars[d] = c

DigitVal(c) == (CHOOSE d \in 1..10 : DigitChars[d] = c) - 1

RECURSIVE NatOf(_)
\* the number a sequence of digit characters writes
NatOf(ds) ==
    IF Len(ds) = 0 THEN 0
    ELSE 10 * NatOf(SubSeq(ds, 1, Len(ds) - 1)) + DigitVal(ds[Len(ds)])

RECURSIVE DigitsOf(_)
\* the digit characters that write n >= 0
DigitsOf(n) ==
    IF n < 10 THEN <<DigitChars[n + 1]>>
    ELSE Append(DigitsOf(n \div 10), DigitChars[(n % 10) + 1])

RECURSIVE Pow10(_)
Pow10(n) == IF n = 0 THEN 1 ELSE 10 * Pow10(n - 1)

RECURSIVE Normal(_, _)
\* m / 10^scale without trailing zeros in the fraction
Normal(m, scale) ==
    IF scale > 0 /\ m % 10 = 0 THEN Normal(m \div 10, scale - 1)
    ELSE [m |-> m, scale |-> scale]

HasSign(s) == Len(s) > 0 /\ s[1] \in {"-", "+"}

Unsigned(s) == IF HasSign(s) THEN Tail(s) ELSE s

\* float(str) over the characters 0-9 + - . and letters that are no part of a
\* number: [sign] digits [. [digits]] or [sign] . digits
ParseFloat(s) ==
    LET body == Unsigned(s)
        dots == {i \in 1..Len(body) : body[i] = "."}
        ok   == /\ \A i \in 1..Len(body) : IsDigit(body[i]) \/ body[i] = "."
                /\ Cardinality(dots) <= 1
                /\ \E i \in 1..Len(body) : IsDigit(body[i])
        n    == Normal(NatOf(SelectSeq(body, IsDigit)),
                       IF dots = {} THEN 0 ELSE Len(body) - (CHOOSE i \in dots : TRUE))
    IN  IF ok
        THEN Return(PyFloat(HasSign(s) /\ s[1] = "-", n.m, n.scale))
        ELSE Raise("ValueError", <<"could not convert string to float">>, "")

\* int(str) over the same characters: [sign] digits
ParseInt(s) ==
    LET body == Unsigned(s)
        ok   == Len(body) > 0 /\ \A i \in 1..Len(body) : IsDigit(body[i])
    IN  IF ok
        THEN Return(PyInt(IF HasSign(s) /\ s[1] = "-" THEN 0 - NatOf(body) ELSE NatOf(body)))
        ELSE Raise("ValueError", <<"invalid literal for int()">>, "")

Abs(i) == IF i < 0 THEN 0 - i ELSE i

\* float(v). An int of more than 308 decimal zeros exceeds the largest double.
FloatOf(v) ==
    CASE v.t = "float" -> Return(v)
      [] v.t = "bool"  -> Return(PyFloat(FALSE, IF v.b THEN 1 ELSE 0, 0))
      [] v.t = "int" /\ v.e = 0 -> Return(PyFloat(v.i < 0, Abs(v.i), 0))
      [] v.t = "int" /\ v.e > 308 ->
            IF v.i = 0 THEN Return(PyFloat(FALSE, 0, 0))
            ELSE Raise("OverflowError", <<"int too large to convert to float">>, "")
      [] v.t = "str"   -> ParseFloat(v.s)
      [] v.t \in {"None", "list", "dict"} ->
            Raise("TypeError", <<"float() argument must be a string or a real number">>, "")

\* int(v): floats are truncated towards zero
IntOf(v) ==
    CASE v.t = "int"   -> Return(v)
      [] v.t = "bool"  -> Return(PyInt(IF v.b THEN 1 ELSE 0))
      [] v.t = "float" ->
            Return(PyInt(IF v.neg THEN 0 - (v.m \div Pow10(v.scale))
                         ELSE v.m \div Pow10(v.scale)))
      [] v.t = "str"   -> ParseInt(v.s)
      [] v.t \in {"None", "list", "dict"} ->
            Raise("TypeError", <<"int() argument must be a string or a real number">>, "")

\* str(v) of a str, None, a bool or an int written out in full
StrOf(v) ==
    CASE v.t = "str"  -> v
      [] v.t = "None" -> PyStr(<<"N", "o", "n", "e">>)
      [] v.t = "bool" -> PyStr(IF v.b THEN <<"T", "r", "u", "e">>
                               ELSE <<"F", "a", "l", "s", "e">>)
      [] v.t = "int" /\ v.e = 0 ->
            PyStr(IF v.i < 0 THEN <<"-">> \o DigitsOf(0 - v.i) ELSE DigitsOf(v.i))

\* the four fraction digits of f"{x:.4f}", the fraction being frac / 10^scale
Pad4(frac, scale) ==
    LET ds == DigitsOf(frac * Pow10(4 - scale))
    IN  [i \in 1..(4 - Len(ds)) |-> "0"] \o ds

\* x rounded to a whole number of 1/10^4: exact for up to four fraction
\* digits, to the nearest one beyond that (a decimal tie, which the binary
\* value of the double decides, has no case here)
Units4(x) ==
    CASE x.scale <= 4 -> x.m * Pow10(4 - x.scale)
      [] x.scale > 4 /\ 2 * (x.m % Pow10(x.scale - 4)) < Pow10(x.scale - 4) ->
            x.m \div Pow10(x.scale - 4)
      [] x.scale > 4 /\ 2 * (x.m % Pow10(x.scale - 4)) > Pow10(x.scale - 4) ->
            (x.m \div Pow10(x.scale - 4)) + 1

\* f"{x:.4f}": fixed point, four fraction digits, a minus sign for every
\* negative float (-0.0 included)
Format4f(x) ==
    (IF x.neg THEN <<"-">> ELSE <<>>)
        \o DigitsOf(Units4(x) \div Pow10(4))
        \o <<".">>
        \o Pad4(Units4(x) % Pow10(4), 4)

----------------------------------------------------------------------------
(* LocationHelper *)

Text(s) == PyStr(<<s>>)

\* requests.Session(): the library's default headers
Session == [headers |-> [h \in {"User-Agent", "Accept"} |->
                            IF h = "User-Agent" THEN Text("python-requests")
                            ELSE Text("*/*")]]

\* dict.update(new)
Update(d, new) ==
    [h \in DOMAIN d \cup DOMAIN new |-> IF h \in DOMAIN new THEN new[h] ELSE d[h]]

FallbackUserAgent == Text("WindowWeather/1.0 (contact: you@example.com)")

\* the environment taking precedence over the argument
__init___EnvFirst(ua_arg, env) ==
    LET ua == Or(Or(env, ua_arg), FallbackUserAgent)
    IN  [session |-> [Session EXCEPT !.headers =
            Update(@, [h \in {"User-Agent", "Accept"} |->
                        IF h = "User-Agent" THEN ua
                        ELSE Text("application/geo+json, application/json")])]]

\* LocationHelper(user_agent) with os.getenv("WINDOW_WEATHER_USER_AGENT") = env
__init__(ua_arg, env) ==
    LET ua == Or(Or(ua_arg, env), FallbackUserAgent)
    IN  [session |-> [Session EXCEPT !.headers =
            Update(@, [h \in {"User-Agent", "Accept"} |->
                        IF h = "User-Agent" THEN ua
                        ELSE Text("application/geo+json, application/json")])]]

\* A collaborator's answer to a GET: no answer at all (the exception
\* session.get raises), or a response with its status and what
\* response.json() gives for its body.
NoReply(exc) == [k |-> "error", exc |-> exc]

Response(status, json) == [k |-> "response", status |-> status, json |-> json]

OkJson(v) == Response(200, Return(v))

NotJson == Raise("JSONDecodeError", <<"Expecting value">>, "")

\* a _get that sets its own Accept header on the session
_get_SetsHeader(self, url, reply) ==
    [self |-> [self EXCEPT !.session.headers =
                    Update(@, [h \in {"Accept"} |-> Text("application/json")])],
     sent |-> <<[url |-> url,
                 headers |-> Update(self.session.headers,
                                    [h \in {"Accept"} |-> Text("application/json")]),
                 timeout |-> 15]>>,
     out  |-> CASE reply.k = "error" -> Raise(reply.exc, <<>>, "")
                [] reply.k = "response" /\ reply.status >= 400 /\ reply.status < 600 ->
                        Raise("HTTPError", <<>>, "")
                [] OTHER -> reply.json]

\* self._get(url): what it sends, what it leaves of self, what it gives back
_get(self, url, reply) ==
    [self |-> self,
     sent |-> <<[url |-> url, headers |-> self.session.headers, timeout |-> 15]>>,
     out  |-> CASE reply.k = "error" -> Raise(reply.exc, <<>>, "")
                [] reply.k = "response" /\ reply.status >= 400 /\ reply.status < 600 ->
                        Raise("HTTPError", <<>>, "")
                [] OTHER -> reply.json]

Coordinates(latitude, longitude) == [latitude |-> latitude, longitude |-> longitude]

\* float(place0[key])
FloatField(place0, key) ==
    LET item == Subscript(place0, key)
    IN  IF Raised(item) THEN item ELSE FloatOf(item.v)

\* places is None, in the place of not places
HasNoPlaces_IsNone(places) == places.t = "None"

\* not places
HasNoPlaces(places) == ~Truthy(places)

\* lines 63-74 on the parsed body
CoordinatesOf(data, zip_code) ==
    LET got == DictGet(data, "places")
        places == Or(got.v, PyList(<<>>))
        place0 == Index0(places)
        lat == FloatField(place0.v, "latitude")
        lon == FloatField(place0.v, "longitude")
        exc == IF Raised(lat) THEN lat ELSE lon
    IN  CASE Raised(got) -> got
          [] Returned(got) /\ HasNoPlaces(places) ->
                Raise("ValueError", <<"No places found for ZIP", zip_code>>, "")
          [] Returned(got) /\ ~HasNoPlaces(places) /\ Raised(place0) -> place0
          [] Returned(got) /\ ~HasNoPlaces(places) /\ Returned(place0) ->
                IF Returned(lat) /\ Returned(lon)
                THEN Return(Coordinates(lat.v, lon.v))
                ELSE IF exc.exc \in {"KeyError", "TypeError", "ValueError"}
                THEN Raise("ValueError", <<"Invalid coordinate data for ZIP", zip_code>>, exc.exc)
                ELSE exc

zip_to_coordinates(self, zip_code, reply) ==
    LET g == _get(self, [host |-> "api.zippopotam.us", path |-> <<"us", zip_code>>], reply)
    IN  [g EXCEPT !.out = IF Raised(g.out) THEN g.out ELSE CoordinatesOf(g.out.v, zip_code)]

PointsMetadata(office, grid_x, grid_y, forecast, forecast_hourly, forecast_grid_data) ==
    [office |-> office, grid_x |-> grid_x, grid_y |-> grid_y, forecast |-> forecast,
     forecast_hourly |-> forecast_hourly, forecast_grid_data |-> forecast_grid_data]

\* the truth value of grid_x, in the place of grid_x is not None
IsNotNone_Truthy(v) == PyBool(Truthy(v))

\* grid_x is not None
IsNotNone(v) == PyBool(v.t # "None")

\* all(items)
All(items) == \A i \in 1..Len(items) : Truthy(items[i])

\* the check without forecast_hourly
Complete_NoHourly(grid_id, grid_x, grid_y, forecast, forecast_hourly, forecast_grid_data) ==
    All(<<grid_id, IsNotNone(grid_x), IsNotNone(grid_y), forecast, forecast_grid_data>>)

\* all([grid_id, grid_x is not None, grid_y is not None, forecast,
\*      forecast_hourly, forecast_grid_data])
Complete(grid_id, grid_x, grid_y, forecast, forecast_hourly, forecast_grid_data) ==
    All(<<grid_id, IsNotNone(grid_x), IsNotNone(grid_y), forecast, forecast_hourly,
          forecast_grid_data>>)

\* lines 81-99 on the parsed body
MetadataOf(data) ==
    LET got == DictGet(data, "properties")
        properties == Or(got.v, EmptyDict)
        grid_id == DictGet(properties, "gridId")
        grid_x == DictGet(properties, "gridX")
        grid_y == DictGet(properties, "gridY")
        forecast == DictGet(properties, "forecast")
        forecast_hourly == DictGet(properties, "forecastHourly")
        forecast_grid_data == DictGet(properties, "forecastGridData")
        x == IntOf(grid_x.v)
        y == IntOf(grid_y.v)
    IN  CASE Raised(got) -> got
          [] Returned(got) /\ Raised(grid_id) -> grid_id
          [] Returned(got) /\ Returned(grid_id) ->
                IF ~Complete(grid_id.v, grid_x.v, grid_y.v, forecast.v, forecast_hourly.v,
                             forecast_grid_data.v)
                THEN Raise("ValueError", <<"Incomplete points metadata from NWS API">>, "")
                ELSE IF Raised(x) THEN x
                ELSE IF Raised(y) THEN y
                ELSE Return(PointsMetadata(StrOf(grid_id.v), x.v, y.v, StrOf(forecast.v),
                                           StrOf(forecast_hourly.v),
                                           StrOf(forecast_grid_data.v)))

points_metadata(self, coords, reply) ==
    LET g == _get(self,
                  [host |-> "api.weather.gov",
                   path |-> <<"points", Format4f(coords.latitude) \o <<",">>
                                            \o Format4f(coords.longitude)>>],
                  reply)
    IN  [g EXCEPT !.out = IF Raised(g.out) THEN g.out ELSE MetadataOf(g.out.v)]

\* a resolve that wraps the failure of a sub-call in an error of its own
resolve_zip_to_points_Wraps(self, zip_code, geo_reply, nws_reply) ==
    LET z == zip_to_coordinates(self, zip_code, geo_reply)
        p == points_metadata(z.self, z.out.v, nws_reply)
        wrap(out) == IF Raised(out)
                     THEN Raise("RuntimeError", <<"Could not resolve ZIP", zip_code>>, out.exc)
                     ELSE out
    IN  IF Raised(z.out) THEN [z EXCEPT !.out = wrap(@)]
        ELSE [p EXCEPT !.sent = z.sent \o p.sent, !.out = wrap(@)]

\* a resolve that goes on with Coordinates(0.0, 0.0) when geocoding fails
resolve_zip_to_points_Default(self, zip_code, geo_reply, nws_reply) ==
    LET z == zip_to_coordinates(self, zip_code, geo_reply)
        coords == IF Raised(z.out)
                  THEN Coordinates(PyFloat(FALSE, 0, 0), PyFloat(FALSE, 0, 0))
                  ELSE z.out.v
        p == points_metadata(z.self, coords, nws_reply)
    IN  [p EXCEPT !.sent = z.sent \o p.sent]

resolve_zip_to_points(self, zip_code, geo_reply, nws_reply) ==
    LET z == zip_to_coordinates(self, zip_code, geo_reply)
        p == points_metadata(z.self, z.out.v, nws_reply)
    IN  IF Raised(z.out) THEN z
        ELSE [p EXCEPT !.sent = z.sent \o p.sent]

----------------------------------------------------------------------------
(* The inputs: constructor arguments, ZIP codes, the collaborators' answers *)

MaxPlaces == 2      \* the longest `places` list
MaxGrid == 1        \* the largest integer grid index

\* marks a key that a dict built by Dict does not have
Absent == [t |-> "absent"]

Dict(fields) ==
    PyDict([key \in {f \in DOMAIN fields : fields[f] # Absent} |-> fields[key]])

SeqsUpTo(S, n) == UNION {[1..len -> S] : len \in 0..n}

UserAgents == {None_, PyStr(<<>>), Text("MyApp/2.0 (me@example.org)")}

Environs == {None_, PyStr(<<>>), Text("EnvApp/1.0 (ops@example.org)")}

ZipCodes == {"10001", "99999"}

LatitudeValues ==
    {PyStr(<<"4", "0", ".", "7", "4", "8", "4">>),
     PyStr(<<"4", "0", ".", "7", "4", "8", "4", "3">>),
     PyStr(<<"+", "4", ".">>),
     PyStr(<<"x">>),
     PyStr(<<>>),
     None_, PyInt(40), PyIntE(1, 400), PyFloat(FALSE, 407484, 4), PyBool(TRUE),
     PyList(<<>>)}

LongitudeValues ==
    {PyStr(<<"-", "7", "3", ".", "9", "9", "6", "7">>),
     PyStr(<<"-">>),
     None_, PyIntE(1, 400), PyFloat(TRUE, 0, 0)}

Place(latitude, longitude) ==
    Dict([latitude |-> latitude, longitude |-> longitude,
          state |-> Text("New York")])

GoodPlace ==
    Place(PyStr(<<"4", "0", ".", "7", "4", "8", "4">>),
          PyStr(<<"-", "7", "3", ".", "9", "9", "6", "7">>))

FirstPlaces ==
    {Place(lat, lon) : lat \in LatitudeValues \cup {Absent},
                       lon \in LongitudeValues \cup {Absent}}
        \cup {None_, PyStr(<<"x">>), PyList(<<PyInt(40), PyInt(-73)>>), PyInt(5)}

LaterPlaces == {Place(PyStr(<<"1", ".", "5">>), PyInt(-2)), None_}

PlacesLists ==
    {<<first>> \o rest : first \in FirstPlaces,
                         rest \in SeqsUpTo(LaterPlaces, MaxPlaces - 1)}

PlacesValues ==
    {PyList(l) : l \in PlacesLists}
        \cup {Absent, None_, PyList(<<>>), PyStr(<<>>), PyStr(<<"4", "0">>), EmptyDict,
              Dict([latitude |-> PyInt(40)]), PyInt(5), PyInt(0), PyBool(FALSE)}

GeoBody(places) == Dict([country |-> Text("United States"), places |-> places])

GeoBodies ==
    {GeoBody(places) : places \in PlacesValues} \cup {PyList(<<>>), None_, PyStr(<<"x">>)}

Failures ==
    {NoReply("ConnectionError"), NoReply("Timeout"), Response(404, Return(EmptyDict)),
     Response(500, NotJson), Response(200, NotJson)}

GeoReplies == {OkJson(body) : body \in GeoBodies} \cup Failures

FewGeoReplies ==
    {OkJson(GeoBody(PyList(<<GoodPlace>>))), OkJson(GeoBody(PyList(<<>>))),
     NoReply("ConnectionError")}

GridValues ==
    {PyInt(i) : i \in 0..MaxGrid}
        \cup {Absent, None_, PyStr(<<"3", "5">>), PyStr(<<"x">>), PyList(<<PyInt(1)>>),
              PyFloat(FALSE, 15, 1), PyBool(FALSE), PyIntE(1, 400)}

OfficeValues == {Absent, None_, PyStr(<<>>), Text("OKX"), PyInt(7), PyInt(0)}

UrlValues(url) == {Absent, None_, PyStr(<<>>), Text(url)}

Properties(gridId, gridX, gridY, forecast, forecastHourly, forecastGridData) ==
    Dict([gridId |-> gridId, gridX |-> gridX, gridY |-> gridY, forecast |-> forecast,
          forecastHourly |-> forecastHourly, forecastGridData |-> forecastGridData,
          timeZone |-> Text("America/New_York")])

ForecastUrl == "https://api.weather.gov/gridpoints/OKX/33,35/forecast"

HourlyUrl == "https://api.weather.gov/gridpoints/OKX/33,35/forecast/hourly"

GridDataUrl == "https://api.weather.gov/gridpoints/OKX/33,35"

PropertiesValues ==
    {Properties(Text("OKX"), x, y, Text(ForecastUrl), Text(HourlyUrl), Text(GridDataUrl)) :
        x \in GridValues, y \in GridValues}
        \cup {Properties(office, PyInt(0), PyInt(MaxGrid), f, h, g) :
                office \in OfficeValues, f \in UrlValues(ForecastUrl),
                h \in UrlValues(HourlyUrl), g \in UrlValues(GridDataUrl)}
        \cup {Absent, None_, EmptyDict, PyInt(0), PyStr(<<"x">>), PyList(<<PyInt(1)>>)}

NwsBody(properties) == Dict([id |-> Text("https://api.weather.gov/points/40.7484,-73.9967"),
                             properties |-> properties])

NwsBodies ==
    {NwsBody(properties) : properties \in PropertiesValues} \cup {PyList(<<>>), None_}

NwsReplies == {OkJson(body) : body \in NwsBodies} \cup Failures

GoodProperties ==
    Properties(Text("OKX"), PyInt(0), PyInt(MaxGrid), Text(ForecastUrl), Text(HourlyUrl),
               Text(GridDataUrl))

FewNwsReplies ==
    {OkJson(NwsBody(GoodProperties)),
     OkJson(NwsBody(Properties(Text("OKX"), PyInt(0), PyInt(MaxGrid), Text(ForecastUrl),
                               Absent, Text(GridDataUrl)))),
     Response(503, NotJson)}

\* coordinates a caller may hand to points_metadata without a geocoding call
OtherCoordinates == {Coordinates(PyFloat(FALSE, 3, 1), PyFloat(TRUE, 12345, 2))}

----------------------------------------------------------------------------
(* The state machine: one instance, its caller, the two collaborators *)

NoCall == [k |-> "none"]

Call(arg, r) == [k |-> "call", arg |-> arg, out |-> r.out, sent |-> r.sent]

Init ==
    /\ \/ /\ user_agent \in UserAgents /\ environ \in Environs
          /\ geocoder \in FewGeoReplies /\ nws \in FewNwsReplies
       \/ /\ user_agent = None_ /\ environ = None_
          /\ \/ geocoder \in GeoReplies /\ nws \in FewNwsReplies
             \/ geocoder \in FewGeoReplies /\ nws \in NwsReplies
    /\ session = __init__(user_agent, environ).session
    /\ calls = [zip_to_coordinates |-> NoCall, points_metadata |-> NoCall,
                resolve_zip_to_points |-> NoCall]

ZipToCoordinates(zip_code) ==
    LET r == zip_to_coordinates([session |-> session], zip_code, geocoder)
    IN  /\ session' = r.self.session
        /\ calls' = [calls EXCEPT !.zip_to_coordinates = Call(zip_code, r)]
        /\ UNCHANGED <<user_agent, environ, geocoder, nws>>

\* the coordinates a caller has at hand
CoordinatesAtHand ==
    OtherCoordinates
        \cup IF calls.zip_to_coordinates # NoCall /\ Returned(calls.zip_to_coordinates.out)
             THEN {calls.zip_to_coordinates.out.v}
             ELSE {}

PointsMetadataCall(coords) ==
    LET r == points_metadata([session |-> session], coords, nws)
    IN  /\ session' = r.self.session
        /\ calls' = [calls EXCEPT !.points_metadata = Call(coords, r)]
        /\ UNCHANGED <<user_agent, environ, geocoder, nws>>

ResolveZipToPoints(zip_code) ==
    LET r == resolve_zip_to_points([session |-> session], zip_code, geocoder, nws)
    IN  /\ session' = r.self.session
        /\ calls' = [calls EXCEPT !.resolve_zip_to_points = Call(zip_code, r)]
        /\ UNCHANGED <<user_agent, environ, geocoder, nws>>

Next ==
    \/ \E zip_code \in ZipCodes : ZipToCoordinates(zip_code)
    \/ \E coords \in CoordinatesAtHand : PointsMetadataCall(coords)
    \/ \E zip_code \in ZipCodes : ResolveZipToPoints(zip_code)

Spec == Init /\ [][Next]_vars

----------------------------------------------------------------------------
(* Vocabulary of the properties *)

LastZip == calls.zip_to_coordinates

LastPoints == calls.points_metadata

LastResolve == calls.resolve_zip_to_points

Done(call) == call.k = "call"

\* the collaborator answered, with a success status and a body that parsed
Parsed(reply) ==
    /\ reply.k = "response"
    /\ ~(reply.status >= 400 /\ reply.status < 600)
    /\ Returned(reply.json)

IsObject(v) == v.t = "dict"

\* the key is there and its value is not null
Has(obj, key) == key \in DOMAIN obj.d /\ obj.d[key] # None_

\* the error kinds of the specification, as the code raises them
NotFoundError(out, zip_code) ==
    out = Raise("ValueError", <<"No places found for ZIP", zip_code>>, "")

InvalidCoordinates(out, zip_code) ==
    /\ Raised(out)
    /\ out.exc = "ValueError"
    /\ out.msg = <<"Invalid coordinate data for ZIP", zip_code>>
    /\ out.cause \in {"KeyError", "TypeError", "ValueError"}

IncompleteMetadata(out) ==
    out = Raise("ValueError", <<"Incomplete points metadata from NWS API">>, "")

GeocodingRequest(request) == request.url.host = "api.zippopotam.us"

DiscoveryRequest(request) == request.url.host = "api.weather.gov"

\* a geocoding answer whose `places` is absent or an empty list
NoPlacesReply(reply) ==
    /\ Parsed(reply)
    /\ IsObject(reply.json.v)
    /\ \/ "places" \notin DOMAIN reply.json.v.d
       \/ reply.json.v.d["places"] = PyList(<<>>)

\* a geocoding answer whose `places` is a list of one element or more
PlacesReply(reply) ==
    /\ Parsed(reply)
    /\ IsObject(reply.json.v)
    /\ "places" \in DOMAIN reply.json.v.d
    /\ reply.json.v.d["places"].t = "list"
    /\ Len(reply.json.v.d["places"].l) > 0

FirstPlace(reply) == reply.json.v.d["places"].l[1]

\* the first place carries a latitude and a longitude that float() takes
GoodFirstPlace(reply) ==
    /\ PlacesReply(reply)
    /\ Returned(FloatField(FirstPlace(reply), "latitude"))
    /\ Returned(FloatField(FirstPlace(reply), "longitude"))

SixFields == {"gridId", "gridX", "gridY", "forecast", "forecastHourly", "forecastGridData"}

TextFields == {"gridId", "forecast", "forecastHourly", "forecastGridData"}

PropertiesOf(reply) == reply.json.v.d["properties"]

\* a discovery answer with a `properties` object
PropertiesReply(reply) ==
    /\ Parsed(reply)
    /\ IsObject(reply.json.v)
    /\ Has(reply.json.v, "properties")
    /\ IsObject(PropertiesOf(reply))

\* a discovery answer without `properties`, with a null one, or with a
\* `properties` object in which one of the six fields is absent or null
IncompleteReply(reply) ==
    \/ Parsed(reply) /\ IsObject(reply.json.v) /\ ~Has(reply.json.v, "properties")
    \/ PropertiesReply(reply) /\ \E f \in SixFields : ~Has(PropertiesOf(reply), f)

\* a discovery answer with the six fields, the texts non-empty strings, the
\* grid indices integers, one of them or both 0
ZeroGridReply(reply) ==
    /\ PropertiesReply(reply)
    /\ \A f \in SixFields : Has(PropertiesOf(reply), f)
    /\ \A f \in TextFields : PropertiesOf(reply).d[f].t = "str" /\ Truthy(PropertiesOf(reply).d[f])
    /\ PropertiesOf(reply).d["gridX"].t = "int"
    /\ PropertiesOf(reply).d["gridY"].t = "int"
    /\ PyInt(0) \in {PropertiesOf(reply).d["gridX"], PropertiesOf(reply).d["gridY"]}

UserAgentHeader == session.headers["User-Agent"]

----------------------------------------------------------------------------
(* Properties *)

\* C1: resolve_zip_to_points(zip) ends as the manual chain does against the
\* same two answers: with the failure of zip_to_coordinates(zip) when that
\* fails, and otherwise with the outcome (value or failure) of points_metadata
\* called on the Coordinates zip_to_coordinates(zip) returned.
C1_ResolveIsTheChain ==
    Done(LastResolve) /\ Done(LastZip) /\ LastResolve.arg = LastZip.arg =>
        /\ Raised(LastZip.out) => LastResolve.out = LastZip.out
        /\ /\ Returned(LastZip.out)
           /\ Done(LastPoints)
           /\ LastPoints.arg = LastZip.out.v
           => LastResolve.out = LastPoints.out

C1_Witness ==
    /\ Done(LastResolve) /\ Done(LastZip) /\ Done(LastPoints)
    /\ LastResolve.arg = LastZip.arg
    /\ Returned(LastZip.out)
    /\ LastPoints.arg = LastZip.out.v
    /\ Returned(LastResolve.out)

\* C2: a finished resolve_zip_to_points has sent the geocoding request first
\* and at most one discovery request after it; when the geocoding step fails
\* (no answer, an error status, no places, or whatever made zip_to_coordinates
\* fail on the same ZIP) it has sent no discovery request, returned nothing,
\* and raised exactly the failure zip_to_coordinates raises.
C2_GeocodingFirstAndFailFast ==
    Done(LastResolve) =>
        /\ Len(LastResolve.sent) \in {1, 2}
        /\ GeocodingRequest(LastResolve.sent[1])
        /\ Len(LastResolve.sent) = 2 => DiscoveryRequest(LastResolve.sent[2])
        /\ geocoder.k = "error" \/ ~Parsed(geocoder) \/ NoPlacesReply(geocoder) =>
                Len(LastResolve.sent) = 1 /\ Raised(LastResolve.out)
        /\ Done(LastZip) /\ LastZip.arg = LastResolve.arg /\ Raised(LastZip.out) =>
                Len(LastResolve.sent) = 1 /\ LastResolve.out = LastZip.out

C2_Witness ==
    /\ Done(LastResolve) /\ Done(LastZip)
    /\ LastZip.arg = LastResolve.arg
    /\ PlacesReply(geocoder)
    /\ InvalidCoordinates(LastZip.out, LastZip.arg)
    /\ Len(LastResolve.sent) = 1

\* C3: on a geocoding answer whose `places` is absent or an empty list,
\* zip_to_coordinates (called directly or by resolve_zip_to_points) raises the
\* "No places found" error and returns no Coordinates.
C3_NoPlacesIsNotFound ==
    NoPlacesReply(geocoder) =>
        /\ Done(LastZip) => NotFoundError(LastZip.out, LastZip.arg)
        /\ Done(LastResolve) => NotFoundError(LastResolve.out, LastResolve.arg)

C3_Witness ==
    /\ NoPlacesReply(geocoder)
    /\ "places" \in DOMAIN geocoder.json.v.d
    /\ Done(LastZip)
    /\ Raised(LastZip.out)

\* C4: on a geocoding answer with a non-empty `places` list
\* whose first place lacks latitude or longitude, or carries one float() does
\* not take, zip_to_coordinates raises the "Invalid coordinate data" error and
\* nothing else.
C4_BadFirstPlaceIsInvalidData ==
    Done(LastZip) /\ PlacesReply(geocoder) /\ ~GoodFirstPlace(geocoder) =>
        InvalidCoordinates(LastZip.out, LastZip.arg)

\* C5: on a discovery answer in which one of the six fields is absent or null
\* (`properties` itself absent or null included), points_metadata (called
\* directly or by resolve_zip_to_points) raises the "Incomplete points
\* metadata" error and returns no PointsMetadata.
C5_MissingFieldIsInvalidData ==
    IncompleteReply(nws) =>
        /\ Done(LastPoints) => IncompleteMetadata(LastPoints.out)
        /\ Done(LastResolve) /\ Len(LastResolve.sent) = 2 =>
                IncompleteMetadata(LastResolve.out)

C5_Witness ==
    /\ PropertiesReply(nws)
    /\ \A f \in SixFields \ {"forecastHourly"} : Has(PropertiesOf(nws), f)
    /\ "forecastHourly" \notin DOMAIN PropertiesOf(nws).d
    /\ Done(LastPoints)
    /\ Raised(LastPoints.out)

\* C6: on a discovery answer with all six fields, the office and the three
\* URLs non-empty strings, gridX and gridY integers of which one or both are
\* 0, points_metadata returns a PointsMetadata whose grid_x and grid_y are the
\* answer's gridX and gridY.
C6_ZeroGridIndexIsValid ==
    ZeroGridReply(nws) /\ Done(LastPoints) =>
        /\ Returned(LastPoints.out)
        /\ LastPoints.out.v.grid_x = PropertiesOf(nws).d["gridX"]
        /\ LastPoints.out.v.grid_y = PropertiesOf(nws).d["gridY"]

C6_Witness ==
    /\ ZeroGridReply(nws)
    /\ Done(LastPoints)
    /\ Returned(LastPoints.out)
    /\ LastPoints.out.v.grid_x = PyInt(0)
    /\ LastPoints.out.v.grid_y # PyInt(0)

\* C7: on a geocoding answer with a non-empty `places` list whose first place
\* carries a latitude and a longitude float() takes, zip_to_coordinates returns
\* Coordinates of exactly these two, as floats, whatever the later places are.
C7_FirstPlaceIsReturned ==
    Done(LastZip) /\ GoodFirstPlace(geocoder) =>
        LastZip.out = Return(Coordinates(FloatOf(FirstPlace(geocoder).d["latitude"]).v,
                                         FloatOf(FirstPlace(geocoder).d["longitude"]).v))

C7_Witness ==
    /\ Done(LastZip)
    /\ GoodFirstPlace(geocoder)
    /\ Len(geocoder.json.v.d["places"].l) > 1
    /\ geocoder.json.v.d["places"].l[2] = None_
    /\ Returned(LastZip.out)

\* C8, in its case of fields that are present and not null: on a discovery
\* answer whose `properties` carries all six fields, none of them null,
\* points_metadata returns a PointsMetadata or raises a ValueError, the class
\* of the code's invalid-data errors; no other kind of error comes out.
C8_OnlyInvalidDataErrors ==
    /\ Done(LastPoints)
    /\ PropertiesReply(nws)
    /\ \A f \in SixFields : Has(PropertiesOf(nws), f)
    => Returned(LastPoints.out) \/ LastPoints.out.exc = "ValueError"

\* C9, as the specification states it: the User-Agent header is the
\* constructor argument when one is given, else the environment variable's
\* value when it is set, else the fallback.
C9_GivenArgumentWins ==
    UserAgentHeader =
        IF user_agent # None_ THEN user_agent
        ELSE IF environ # None_ THEN environ
        ELSE FallbackUserAgent

\* C9, for arguments and values that are not empty: the User-Agent header is
\* the constructor argument when one is given and not empty, else the
\* environment variable's value when it is set and not empty, else the
\* fallback.
C9_NonEmptyArgumentWins ==
    UserAgentHeader =
        IF user_agent # None_ /\ user_agent # PyStr(<<>>) THEN user_agent
        ELSE IF environ # None_ /\ environ # PyStr(<<>>) THEN environ
        ELSE FallbackUserAgent

C9_Witness ==
    /\ user_agent \notin {None_, PyStr(<<>>)}
    /\ environ \notin {None_, PyStr(<<>>)}
    /\ UserAgentHeader = user_agent

\* C10: no call changes the session (its headers stay those of construction),
\* and every request of every call carries the session's User-Agent and
\* Accept headers.
C10_HeadersFixed ==
    /\ [][session' = session]_vars
    /\ [](\A op \in DOMAIN calls :
            Done(calls[op]) =>
                \A i \in 1..Len(calls[op].sent) :
                    calls[op].sent[i].headers = __init__(user_agent, environ).session.headers)

C10_Witness ==
    /\ Done(LastZip) /\ Done(LastPoints) /\ Done(LastResolve)
    /\ Raised(LastPoints.out)
    /\ Returned(LastZip.out)
    /\ Len(LastResolve.sent) = 2
    /\ UserAgentHeader = user_agent

====
